---- MODULE Spec2Model ----
(***************************************************************************)
(* Validation state machine of the two Streamlit forms:                    *)
(*   form_validation.py   the batch form  (validate on submit, st.form)    *)
(*   form_validation2.py  the live form   (validate on every change)       *)
(*                                                                         *)
(* Text values are sequences of one-character strings, ages are integers   *)
(* (tagged as Python values, int or str, where a validator is given them), *)
(* dates are proleptic Gregorian ordinals (datetime.date.toordinal()).     *)
(* A validator returns the pair (verdict, message) as [ok, msg].           *)
(*                                                                         *)
(* Spec           one session of either form                               *)
(* ValidatorSpec  the ten validators called on their own                   *)
(* TwoSpec        two sessions of the same form                            *)
(***************************************************************************)
EXTENDS Integers, Sequences, FiniteSets, TLC

VARIABLES
    app,            \* which script serves the session: "batch" or "live"
                    \* ("validators": a validator is called on its own)
    widgets,        \* batch: the value held by each (keyless) widget of the st.form
                    \* (validators: the argument of the call)
    session_state,  \* st.session_state (live: the keyed widgets' values included)
    event           \* the last event of the session and what its script run surfaced
                    \* (validators: the call and what it returned)

vars == <<app, widgets, session_state, event>>

(***************************************************************************)
(* Dates and bounds                                                        *)
(***************************************************************************)

\* date.today() as an ordinal (2026-11-04); fixed during a session
Today == 739924

\* date(1990, 1, 1), the default earliest_date of the batch validate_date
EarliestDate == 726468

\* 5 * 365, the timedelta of the batch validate_date
FutureDays == 1825

\* number_input(min_value=0, max_value=120)
MinAge == 0
MaxAge == 120

\* the dates a user picks: today and the DaySpan days after it (for the batch
\* form's birth date also one date before 1990 and one beyond five years)
DaySpan == 1

(***************************************************************************)
(* Characters and regular-expression pieces                                *)
(***************************************************************************)

Upper == {"A","B","C","D","E","F","G","H","I","J","K","L","M",
          "N","O","P","Q","R","S","T","U","V","W","X","Y","Z"}
Lower == {"a","b","c","d","e","f","g","h","i","j","k","l","m",
          "n","o","p","q","r","s","t","u","v","w","x","y","z"}
Letter == Upper \cup Lower
Digit == {"0","1","2","3","4","5","6","7","8","9"}
\* \s of a str pattern (the characters a text input can carry)
Space == {" ", "\t", "\n", "\r", "\f"}

\* $ matches at the end of the string and just before a final newline
AtEnd(s, i) == \/ i = Len(s) + 1
               \/ i = Len(s) /\ s[i] = "\n"

\* s[from..to] consists of characters of class C
AllIn(s, from, to, C) == \A i \in from..to : s[i] \in C

\* ^C{lo,hi}$ where hi = -1 stands for no upper limit
MatchRun(s, C, lo, hi) ==
    \E k \in 0..Len(s) :
        /\ k >= lo
        /\ hi = -1 \/ k <= hi
        /\ AllIn(s, 1, k, C)
        /\ AtEnd(s, k + 1)

\* Python truthiness of a str
Truthy(s) == Len(s) > 0

Valid == [ok |-> TRUE, msg |-> ""]

\* a failure returned without its message
Invalid_NoMessage(m) == [ok |-> FALSE, msg |-> ""]

Invalid(m) == [ok |-> FALSE, msg |-> m]

\* a call that ends in an uncaught exception returns no pair
Raises(e) == [ok |-> FALSE, msg |-> "", raises |-> e]

\* Python values of an age: a str or an int
PyStr(s) == [str |-> s]
PyInt(n) == [int |-> n]

\* s.strip(): s without its leading and trailing whitespace
Strip(s) ==
    LET inner == {i \in 1..Len(s) : s[i] \notin Space}
    IN  IF inner = {} THEN <<>>
        ELSE SubSeq(s, CHOOSE i \in inner : \A j \in inner : i <= j,
                       CHOOSE i \in inner : \A j \in inner : i >= j)

\* the number a string of decimal digits and underscores denotes
DecimalValue(ds) ==
    LET digits == SelectSeq(ds, LAMBDA c : c \in Digit)
        DigitValue(c) == CHOOSE n \in 0..9 : <<"0","1","2","3","4","5","6","7","8","9">>[n + 1] = c
        value[i \in 0..Len(digits)] ==
            IF i = 0 THEN 0 ELSE 10 * value[i - 1] + DigitValue(digits[i])
    IN  value[Len(digits)]

\* int(x): an int is returned as it is; a str is stripped and read as an
\* optional sign followed by decimal digits, single underscores between digits
\* allowed, and raises ValueError when it is not of that form
int_py(x) ==
    IF "int" \in DOMAIN x THEN x
    ELSE LET t == Strip(x.str)
             signed == Len(t) > 0 /\ t[1] \in {"+", "-"}
             body == IF signed THEN SubSeq(t, 2, Len(t)) ELSE t
             literal == /\ Len(body) > 0
                        /\ \A i \in 1..Len(body) : body[i] \in Digit \cup {"_"}
                        /\ body[1] # "_" /\ body[Len(body)] # "_"
                        /\ \A i \in 1..(Len(body) - 1) : ~(body[i] = "_" /\ body[i + 1] = "_")
         IN  IF ~literal THEN [raises |-> "ValueError"]
             ELSE IF signed /\ t[1] = "-" THEN PyInt(0 - DecimalValue(body))
             ELSE PyInt(DecimalValue(body))

(***************************************************************************)
(* Validators of form_validation.py (variant A)                            *)
(***************************************************************************)

NameClassA == Letter \cup Space \cup {"-"}

\* validate_name_A checking the length before the characters
validate_name_A_LengthFirst(name, field_name) ==
    IF ~Truthy(name) THEN Invalid(field_name \o " is required")
    ELSE IF Len(name) < 2
         THEN Invalid(field_name \o " should be at least 2 characters long")
    ELSE IF ~MatchRun(name, NameClassA, 1, -1)
         THEN Invalid(field_name \o " should only contain letters, spaces, and hyphens")
    ELSE Valid

validate_name_A(name, field_name) ==
    IF ~Truthy(name) THEN Invalid(field_name \o " is required")
    ELSE IF ~MatchRun(name, NameClassA, 1, -1)
         THEN Invalid(field_name \o " should only contain letters, spaces, and hyphens")
    ELSE IF Len(name) < 2
         THEN Invalid(field_name \o " should be at least 2 characters long")
    ELSE Valid

EmailLocal == Letter \cup Digit \cup {".", "_", "%", "+", "-"}
EmailDomain == Letter \cup Digit \cup {".", "-"}

\* MatchEmail with {1,} for the {2,} of the top-level domain
MatchEmail_ShortTld(s) ==
    \E at \in 2..Len(s) :
        /\ s[at] = "@" /\ AllIn(s, 1, at - 1, EmailLocal)
        /\ \E dot \in (at + 2)..Len(s) :
               /\ s[dot] = "." /\ AllIn(s, at + 1, dot - 1, EmailDomain)
               /\ \E last \in (dot + 1)..Len(s) :
                      AllIn(s, dot + 1, last, Letter) /\ AtEnd(s, last + 1)

\* ^[a-zA-Z0-9._%+-]+@[a-zA-Z0-9.-]+\.[a-zA-Z]{2,}$
MatchEmail(s) ==
    \E at \in 2..Len(s) :
        /\ s[at] = "@" /\ AllIn(s, 1, at - 1, EmailLocal)
        /\ \E dot \in (at + 2)..Len(s) :
               /\ s[dot] = "." /\ AllIn(s, at + 1, dot - 1, EmailDomain)
               /\ \E last \in (dot + 2)..Len(s) :
                      AllIn(s, dot + 1, last, Letter) /\ AtEnd(s, last + 1)

validate_email_A(email) ==
    IF ~MatchEmail(email) THEN Invalid("Please enter a valid email address")
    ELSE Valid

PhoneSep == {"-", ".", " "}

\* s has a character of class C at position i
Has(s, i, C) == i >= 1 /\ i <= Len(s) /\ s[i] \in C

\* ^\(?([0-9]{3})\)?[-. ]?([0-9]{3})[-. ]?([0-9]{4})$
MatchPhone(s) ==
    \E o1 \in 0..1, o2 \in 0..1, o3 \in 0..1, o4 \in 0..1 :
        LET d1 == 1 + o1          \* first digit of the area code
            p2 == d1 + 3          \* the optional ")"
            p3 == p2 + o2         \* the first optional separator
            d2 == p3 + o3         \* first digit of the exchange
            p4 == d2 + 3          \* the second optional separator
            d3 == p4 + o4         \* first digit of the line number
        IN  /\ o1 = 1 => Has(s, 1, {"("})
            /\ \A i \in d1..(d1 + 2) : Has(s, i, Digit)
            /\ o2 = 1 => Has(s, p2, {")"})
            /\ o3 = 1 => Has(s, p3, PhoneSep)
            /\ \A i \in d2..(d2 + 2) : Has(s, i, Digit)
            /\ o4 = 1 => Has(s, p4, PhoneSep)
            /\ \A i \in d3..(d3 + 3) : Has(s, i, Digit)
            /\ AtEnd(s, d3 + 4)

validate_phone_A(phone) ==
    IF ~MatchPhone(phone) THEN Invalid("Please enter a valid phone number")
    ELSE Valid

\* "except ValueError" catches the failure of int(age)
validate_age_A(age) ==
    LET parsed == int_py(age)
    IN  IF "raises" \in DOMAIN parsed THEN Invalid("Please enter a valid number")
        ELSE IF parsed.int < 0 \/ parsed.int > 120
             THEN Invalid("Age must be between 0 and 120")
        ELSE Valid

validate_date_A(input_date) ==
    LET max_future_date == Today + FutureDays
    IN  IF input_date < EarliestDate THEN Invalid("Date must be after 1990-01-01")
        ELSE IF input_date > max_future_date
             THEN Invalid("Date cannot be more than 5 years in the future")
        ELSE Valid

(***************************************************************************)
(* Validators of form_validation2.py (variant B)                           *)
(***************************************************************************)

NameClassB == Letter \cup Space \cup {"'", "-"}

validate_name_B(name, field_name) ==
    IF ~Truthy(name) THEN Invalid(field_name \o " is required")
    ELSE IF ~MatchRun(name, NameClassB, 2, 50)
         THEN Invalid(field_name \o
             " must contain only letters, spaces, hyphens, or apostrophes (2-50 characters)")
    ELSE Valid

validate_email_B(email) ==
    IF ~Truthy(email) THEN Invalid("Email is required")
    ELSE IF ~MatchEmail(email) THEN Invalid("Invalid email format")
    ELSE Valid

\* CleanPhone leaving the parentheses in
CleanPhone_KeepsParens(phone) == SelectSeq(phone, LAMBDA c : c \notin Space \cup {"-"})

\* re.sub(r'[\s\-\(\)]', '', phone)
CleanPhone(phone) == SelectSeq(phone, LAMBDA c : c \notin Space \cup {"-", "(", ")"})

validate_phone_B(phone) ==
    IF ~Truthy(phone) THEN Invalid("Phone number is required")
    ELSE IF ~MatchRun(CleanPhone(phone), Digit, 10, 10)
         THEN Invalid("Phone must be 10 digits")
    ELSE Valid

\* validate_age_B with "age < 0" for "age <= 0"
validate_age_B_ZeroAllowed(age) ==
    IF "str" \in DOMAIN age THEN Raises("TypeError")
    ELSE IF age.int < 0 THEN Invalid("Age must be greater than 0")
    ELSE IF age.int > 120 THEN Invalid("Age must be less than 120")
    ELSE Valid

\* "age <= 0" of a str and an int raises TypeError, which nothing catches
validate_age_B(age) ==
    IF "str" \in DOMAIN age THEN Raises("TypeError")
    ELSE IF age.int <= 0 THEN Invalid("Age must be greater than 0")
    ELSE IF age.int > 120 THEN Invalid("Age must be less than 120")
    ELSE Valid

\* a date object is always truthy, so "Date is required" is never returned
validate_date_B(check_date) ==
    IF check_date > Today THEN Invalid("Date cannot be in the future")
    ELSE Valid

(***************************************************************************)
(* st.session_state                                                        *)
(***************************************************************************)

\* The statements of a script run one after the other. The({F(v) : v \in {x}})
\* evaluates x, then F of its value.
The(S) == CHOOSE r \in S : TRUE

\* a session state without entries
NoEntries == [k \in {} |-> FALSE]

\* st.session_state.get(k, d)
Get(ss, k, d) == IF k \in DOMAIN ss THEN ss[k] ELSE d

\* st.session_state[k] = v
Set(ss, k, v) == (k :> v) @@ ss

\* a keyed widget: its entry is created with the widget's default when absent
Widget(ss, k, default) == IF k \in DOMAIN ss THEN ss ELSE Set(ss, k, default)

(***************************************************************************)
(* form_validation2.py: the live form                                      *)
(***************************************************************************)

\* StatusOf without the required-field branch
StatusOf_NoRequired(ss, key, value_set, v, required) ==
    IF ~Get(ss, key \o "_valid", FALSE)
    THEN IF value_set
         THEN IF ~v.ok THEN <<v.msg>> ELSE <<>>
         ELSE <<>>
    ELSE <<>>

\* StatusOf reporting the validator's message for an unset value too
StatusOf_ValidatorMessage(ss, key, value_set, v, required) ==
    IF ~Get(ss, key \o "_valid", FALSE)
    THEN IF ~v.ok THEN <<v.msg>> ELSE <<>>
    ELSE <<>>

\* One "if not st.session_state.get('<f>_valid', False)" block: value_set is
\* the truthiness test of the stored value, v the validator's result for it.
StatusOf(ss, key, value_set, v, required) ==
    IF ~Get(ss, key \o "_valid", FALSE)
    THEN IF value_set
         THEN IF ~v.ok THEN <<v.msg>> ELSE <<>>
         ELSE <<required>>
    ELSE <<>>

\* the date-range block with > for >=
RangeStatus_Strict(ss) ==
    IF /\ "start_date" \in DOMAIN ss /\ "end_date" \in DOMAIN ss
       /\ ss["start_date"] > ss["end_date"]
    THEN <<"Start date must be before end date">>
    ELSE <<>>

\* the date-range block of get_validation_status (dates are always truthy)
RangeStatus(ss) ==
    IF /\ "start_date" \in DOMAIN ss /\ "end_date" \in DOMAIN ss
       /\ ss["start_date"] >= ss["end_date"]
    THEN <<"Start date must be before end date">>
    ELSE <<>>

\* the list get_validation_status() builds
StatusMessages(ss) ==
    LET first_name == Get(ss, "first_name", <<>>)
        last_name == Get(ss, "last_name", <<>>)
        email == Get(ss, "email", <<>>)
        phone == Get(ss, "phone", <<>>)
        age == Get(ss, "age", 0)
        has_birth == "birth_date" \in DOMAIN ss
        validation_messages ==
            StatusOf(ss, "first_name", Truthy(first_name),
                     validate_name_B(first_name, "First name"), "First name is required")
            \o StatusOf(ss, "last_name", Truthy(last_name),
                     validate_name_B(last_name, "Last name"), "Last name is required")
            \o StatusOf(ss, "email", Truthy(email),
                     validate_email_B(email), "Email is required")
            \o StatusOf(ss, "phone", Truthy(phone),
                     validate_phone_B(phone), "Phone number is required")
            \o StatusOf(ss, "age", age > 0,
                     validate_age_B(PyInt(age)), "Age is required")
            \o StatusOf(ss, "birth_date", has_birth,
                     validate_date_B(Get(ss, "birth_date", Today)), "Birth date is required")
            \o RangeStatus(ss)
    IN  validation_messages

\* get_validation_status() collecting into st.session_state.validation_messages
StatusList_Accumulating(ss) ==
    LET collected == Get(ss, "validation_messages", <<>>) \o StatusMessages(ss)
    IN  [ret |-> collected, ss |-> Set(ss, "validation_messages", collected)]

\* the body of get_validation_status(): the list it returns, built in a local
\* variable, and the session state it leaves
StatusList(ss) == [ret |-> StatusMessages(ss), ss |-> ss]

get_validation_status(ss) == The({StatusList(s) : s \in {ss}})

\* update_sidebar_table(): the table's values and the success banner
update_sidebar_table(ss) ==
    [first_name |-> Get(ss, "first_name", <<>>),
     last_name |-> Get(ss, "last_name", <<>>),
     email |-> Get(ss, "email", <<>>),
     phone |-> Get(ss, "phone", <<>>),
     age |-> Get(ss, "age", 0),
     birth_date |-> Get(ss, "birth_date", Today),
     start_date |-> Get(ss, "start_date", Today),
     end_date |-> Get(ss, "end_date", Today),
     banner |-> Get(ss, "form_submitted", FALSE)]

\* "if first_name:", "if age > 0:", "if birth_date:" (a date is truthy)
LiveTouched(key, value) ==
    CASE key \in {"first_name", "last_name", "email", "phone"} -> Truthy(value)
      [] key = "age" -> value > 0
      [] key = "birth_date" -> TRUE

\* the validator main() calls for the input with this key
LiveValidate(key, value) ==
    CASE key = "first_name" -> validate_name_B(value, "First name")
      [] key = "last_name" -> validate_name_B(value, "Last name")
      [] key = "email" -> validate_email_B(value)
      [] key = "phone" -> validate_phone_B(value)
      [] key = "age" -> validate_age_B(PyInt(value))
      [] key = "birth_date" -> validate_date_B(value)

\* the st.error(message) main() shows under the input with this key: the
\* validator's message when the input is validated and fails, none otherwise
LiveError(ss, key) ==
    IF LiveTouched(key, ss[key]) /\ ~LiveValidate(key, ss[key]).ok
    THEN LiveValidate(key, ss[key]).msg
    ELSE ""

\* LiveField without the else branch that resets the flag of an empty input
LiveField_NoReset(ss, key, default) ==
    LET Flag(s1, value) == IF LiveTouched(key, value) THEN LiveValidate(key, value).ok
                           ELSE Get(s1, key \o "_valid", FALSE)
        SetFlag(s1) == Set(s1, key \o "_valid", The({Flag(s1, value) : value \in {s1[key]}}))
    IN  The({SetFlag(s1) : s1 \in {Widget(s0, key, default) : s0 \in {ss}}})

\* One input of main(): the widget, then its *_valid flag
LiveField(ss, key, default) ==
    LET Flag(value) == IF LiveTouched(key, value) THEN LiveValidate(key, value).ok
                       ELSE FALSE
        SetFlag(s1) == Set(s1, key \o "_valid", The({Flag(value) : value \in {s1[key]}}))
    IN  The({SetFlag(s1) : s1 \in {Widget(s0, key, default) : s0 \in {ss}}})

\* the two date inputs and the range check that sets both range flags
LiveRange(ss) ==
    LET SetFlags(s1) ==
            LET in_order == s1["start_date"] < s1["end_date"]
            IN  Set(Set(s1, "start_date_valid", in_order), "end_date_valid", in_order)
    IN  The({SetFlags(s1) :
                s1 \in {Widget(Widget(s0, "start_date", Today), "end_date", Today) :
                           s0 \in {ss}}})

\* LiveForm setting form_submitted to False on every run, present or not
LiveForm_ForgetsSubmission(ss, submit) ==
    LET s0 == Widget(Set(ss, "form_submitted", FALSE), "validation_messages", <<>>)
        s1 == LiveField(s0, "first_name", <<>>)
        s2 == LiveField(s1, "last_name", <<>>)
        s3 == LiveField(s2, "email", <<>>)
        s4 == LiveField(s3, "phone", <<>>)
        s5 == LiveField(s4, "age", MinAge)
        s6 == LiveField(s5, "birth_date", Today)
        s7 == LiveRange(s6)
        Button(status) ==
            IF status.ret = <<>>
            THEN [ss |-> Set(status.ss, "form_submitted", TRUE), success |-> TRUE,
                  messages |-> <<>>, calls |-> <<status.ret>>]
            ELSE [ss |-> status.ss, success |-> FALSE,
                  messages |-> status.ret, calls |-> <<status.ret>>]
    IN  IF ~submit
        THEN [ss |-> s7, success |-> FALSE, messages |-> <<>>, calls |-> <<>>]
        ELSE The({Button(status) : status \in {get_validation_status(s7)}})

\* main() from its start to the end of the form column (lines 171-295)
LiveForm(ss, submit) ==
    LET s0 == Widget(Widget(ss, "form_submitted", FALSE), "validation_messages", <<>>)
        s1 == LiveField(s0, "first_name", <<>>)
        s2 == LiveField(s1, "last_name", <<>>)
        s3 == LiveField(s2, "email", <<>>)
        s4 == LiveField(s3, "phone", <<>>)
        s5 == LiveField(s4, "age", MinAge)
        s6 == LiveField(s5, "birth_date", Today)
        s7 == LiveRange(s6)
        Button(status) ==
            IF status.ret = <<>>
            THEN [ss |-> Set(status.ss, "form_submitted", TRUE), success |-> TRUE,
                  messages |-> <<>>, calls |-> <<status.ret>>]
            ELSE [ss |-> status.ss, success |-> FALSE,
                  messages |-> status.ret, calls |-> <<status.ret>>]
    IN  IF ~submit
        THEN [ss |-> s7, success |-> FALSE, messages |-> <<>>, calls |-> <<>>]
        ELSE The({Button(status) : status \in {get_validation_status(s7)}})

\* the validation column of main() (lines 300-310): all_valid is computed from
\* one call, the messages shown come from a second one
LiveSummary(r) ==
    LET Warn(run, first, second) ==
            [run EXCEPT !.ss = second.ss, !.calls = @ \o <<first.ret, second.ret>>]
        Column(run, first) ==
            IF first.ret = <<>>
            THEN [run EXCEPT !.ss = first.ss, !.calls = @ \o <<first.ret>>]
            ELSE The({Warn(run, first, second) :
                         second \in {get_validation_status(first.ss)}})
    IN  The({ The({Column(run, first) : first \in {get_validation_status(run.ss)}}) :
                 run \in {r} })

\* "for key in st.session_state.keys(): del st.session_state[key]"
DeleteAll(ss) == [k \in DOMAIN ss \ DOMAIN ss |-> FALSE]

\* One run of the script. A click on Clear Form (in update_sidebar_table)
\* deletes every entry and st.rerun() runs the script again from the top.
LiveMain(ss, submit, clear) ==
    LET Sidebar(r) ==
            IF clear
            THEN LiveSummary(LiveForm(DeleteAll(r.ss), FALSE))
            ELSE LiveSummary(r)
    IN  The({Sidebar(r) : r \in {LiveForm(ss, submit)}})

(***************************************************************************)
(* form_validation.py: the batch form                                      *)
(***************************************************************************)

PyTruthy(x) == IF "str" \in DOMAIN x THEN Len(x.str) > 0 ELSE x.int # 0

FieldNames == {"first_name", "last_name", "email", "phone",
               "age", "birth_date", "start_date", "end_date"}

\* the six fields with a validator of their own
Validated == {"first_name", "last_name", "email", "phone", "age", "birth_date"}

\* st.session_state.form_data as created at session start
InitialFormData ==
    [first_name |-> <<>>, last_name |-> <<>>, email |-> <<>>, phone |-> <<>>,
     age |-> PyStr(<<>>), birth_date |-> Today, start_date |-> Today,
     end_date |-> Today + 1, submitted |-> FALSE]

\* the value= argument each widget of the form is created with
WidgetDefaults(fd) ==
    [first_name |-> fd.first_name, last_name |-> fd.last_name,
     email |-> fd.email, phone |-> fd.phone,
     age |-> IF ~PyTruthy(fd.age) THEN 0 ELSE fd.age.int,
     birth_date |-> fd.birth_date, start_date |-> fd.start_date,
     end_date |-> fd.end_date]

\* The widgets after st.rerun(): a keyless widget is identified by its
\* arguments, so it keeps the value it holds while its value= argument is
\* unchanged and is created anew, showing the new default, when it changed.
Rerender(w, old_fd, new_fd) ==
    [f \in FieldNames |->
        IF WidgetDefaults(new_fd)[f] = WidgetDefaults(old_fd)[f]
        THEN w[f]
        ELSE WidgetDefaults(new_fd)[f]]

\* Validations without the date-range check
Validations_RangeUnchecked(w) ==
    << validate_name_A(w.first_name, "First name"),
       validate_name_A(w.last_name, "Last name"),
       validate_email_A(w.email),
       validate_phone_A(w.phone),
       validate_age_A(PyInt(w.age)),
       validate_date_A(w.birth_date),
       [ok |-> TRUE, msg |-> "Start date must be before end date"] >>

\* Validations with the email checked before the names
Validations_EmailFirst(w) ==
    << validate_email_A(w.email),
       validate_name_A(w.first_name, "First name"),
       validate_name_A(w.last_name, "Last name"),
       validate_phone_A(w.phone),
       validate_age_A(PyInt(w.age)),
       validate_date_A(w.birth_date),
       [ok |-> w.start_date < w.end_date, msg |-> "Start date must be before end date"] >>

\* the validations list built when the form is submitted
Validations(w) ==
    << validate_name_A(w.first_name, "First name"),
       validate_name_A(w.last_name, "Last name"),
       validate_email_A(w.email),
       validate_phone_A(w.phone),
       validate_age_A(PyInt(w.age)),
       validate_date_A(w.birth_date),
       [ok |-> w.start_date < w.end_date, msg |-> "Start date must be before end date"] >>

\* "for valid, message in validations: if not valid: st.error(message)"
FailedMessages(validations) ==
    LET failed == SelectSeq(validations, LAMBDA v : ~v.ok)
    IN  [i \in 1..Len(failed) |-> failed[i].msg]

\* BatchSubmit storing the values before it validates them
BatchSubmit_StoresFirst(fd, w) ==
    LET validations == Validations(w)
        updated == [first_name |-> w.first_name, last_name |-> w.last_name,
                    email |-> w.email, phone |-> w.phone, age |-> PyInt(w.age),
                    birth_date |-> w.birth_date, start_date |-> w.start_date,
                    end_date |-> w.end_date, submitted |-> fd.submitted]
    IN  IF \A i \in 1..Len(validations) : validations[i].ok
        THEN [form_data |-> [updated EXCEPT !.submitted = TRUE],
              widgets |-> Rerender(w, fd, updated),
              success |-> TRUE, messages |-> <<>>]
        ELSE [form_data |-> updated, widgets |-> Rerender(w, fd, updated),
              success |-> FALSE, messages |-> FailedMessages(validations)]

\* the script run of a click on Submit Form with the widgets holding w
BatchSubmit(fd, w) ==
    LET validations == Validations(w)
        updated == [first_name |-> w.first_name, last_name |-> w.last_name,
                    email |-> w.email, phone |-> w.phone, age |-> PyInt(w.age),
                    birth_date |-> w.birth_date, start_date |-> w.start_date,
                    end_date |-> w.end_date, submitted |-> TRUE]
    IN  IF \A i \in 1..Len(validations) : validations[i].ok
        THEN [form_data |-> updated, widgets |-> Rerender(w, fd, updated),
              success |-> TRUE, messages |-> <<>>]
        ELSE [form_data |-> fd, widgets |-> w,
              success |-> FALSE, messages |-> FailedMessages(validations)]

\* the clear loop resetting the dates and the submitted flag only
ClearedFormData_DatesOnly(fd) ==
    [key \in DOMAIN fd |->
        IF key \in {"start_date", "end_date", "birth_date"} THEN Today
        ELSE IF key = "submitted" THEN FALSE
        ELSE fd[key]]

\* the loop run by a click on Clear Form
ClearedFormData(fd) ==
    [key \in DOMAIN fd |->
        IF key \in {"start_date", "end_date", "birth_date"} THEN Today
        ELSE IF key = "submitted" THEN FALSE
        ELSE IF key = "age" THEN PyStr(<<>>)
        ELSE <<>>]

\* the script run of a click on Clear Form, and the rerun it asks for
BatchClear(fd, w) ==
    LET cleared == ClearedFormData(fd)
    IN  [form_data |-> cleared, widgets |-> Rerender(w, fd, cleared),
         success |-> FALSE, messages |-> <<>>]

\* create_sidebar_markdown(form_data): the values of the submission summary
create_sidebar_markdown(fd) ==
    [first_name |-> fd.first_name, last_name |-> fd.last_name,
     email |-> fd.email, phone |-> fd.phone, age |-> fd.age,
     birth_date |-> fd.birth_date, start_date |-> fd.start_date,
     end_date |-> fd.end_date]

(***************************************************************************)
(* The inputs a user gives                                                 *)
(***************************************************************************)

\* each text field can be left empty or given a well-formed value; first name,
\* email and phone can also be given a malformed one
FirstNameInputs == { <<>>, <<"A">>, <<"A", "l">> }
LastNameInputs == { <<>>, <<"L", "e", "e">> }
EmailInputs == { <<>>, <<"b", "a", "d">>, <<"a", "@", "b", ".", "c", "o">> }
PhoneInputs == { <<>>,
                 <<"(", "5", "5", "5", ")", " ", "1", "2", "3", "-", "4", "5", "6", "7">> }
AgeInputs == {MinAge, MaxAge}
NearDates == Today..(Today + DaySpan)
\* the batch form's date picker moves with each submission; the live form's
\* stays within ten years of today
BirthDates(a) ==
    IF a = "batch" THEN {EarliestDate - 1, Today, Today + FutureDays + 1}
    ELSE NearDates

Inputs(a, f) ==
    CASE f = "first_name" -> FirstNameInputs
      [] f = "last_name" -> LastNameInputs
      [] f = "email" -> EmailInputs
      [] f = "phone" -> PhoneInputs
      [] f = "age" -> AgeInputs
      [] f = "birth_date" -> BirthDates(a)
      [] f \in {"start_date", "end_date"} -> NearDates

(***************************************************************************)
(* The session as a state machine                                          *)
(***************************************************************************)

\* the value a field's widget holds
FieldValue(f) == IF app = "batch" THEN widgets[f] ELSE session_state[f]

Submitted ==
    IF app = "batch" THEN session_state.form_data.submitted
    ELSE session_state.form_submitted

Outcome(kind, r, calls) ==
    [kind |-> kind, success |-> r.success, messages |-> r.messages, calls |-> calls]

StartBatch ==
    /\ app = "batch"
    /\ session_state = [form_data |-> InitialFormData]
    /\ widgets = WidgetDefaults(InitialFormData)
    /\ event = [kind |-> "start", success |-> FALSE, messages |-> <<>>, calls |-> <<>>]

StartLive ==
    \E r \in {LiveMain(NoEntries, FALSE, FALSE)} :
        /\ app = "live"
        /\ session_state = r.ss
        /\ widgets = NoEntries
        /\ event = Outcome("start", r, r.calls)

Init == StartBatch \/ StartLive

\* the user changes a field of the st.form: nothing is sent before a submit
BatchEdit(f, v) ==
    /\ app = "batch"
    /\ v # widgets[f]
    /\ widgets' = [widgets EXCEPT ![f] = v]
    /\ event' = [kind |-> "edit", success |-> FALSE, messages |-> <<>>, calls |-> <<>>]
    /\ UNCHANGED <<app, session_state>>

BatchSubmitForm ==
    /\ app = "batch"
    /\ \E r \in {BatchSubmit(session_state.form_data, widgets)} :
           /\ session_state' = [form_data |-> r.form_data]
           /\ widgets' = r.widgets
           /\ event' = Outcome("submit", r, <<>>)
    /\ UNCHANGED app

\* the Clear Form button is part of the submission summary
BatchClearForm ==
    /\ app = "batch"
    /\ session_state.form_data.submitted
    /\ \E r \in {BatchClear(session_state.form_data, widgets)} :
           /\ session_state' = [form_data |-> r.form_data]
           /\ widgets' = r.widgets
           /\ event' = Outcome("clear", r, <<>>)
    /\ UNCHANGED app

\* the user changes a keyed widget: its entry is set and the script reruns
LiveEdit(f, v) ==
    /\ app = "live"
    /\ v # session_state[f]
    /\ \E r \in {LiveMain(Set(session_state, f, v), FALSE, FALSE)} :
           /\ session_state' = r.ss
           /\ event' = Outcome("edit", r, r.calls)
    /\ UNCHANGED <<app, widgets>>

LiveSubmit ==
    /\ app = "live"
    /\ \E r \in {LiveMain(session_state, TRUE, FALSE)} :
           /\ session_state' = r.ss
           /\ event' = Outcome("submit", r, r.calls)
    /\ UNCHANGED <<app, widgets>>

LiveClear ==
    /\ app = "live"
    /\ \E r \in {LiveMain(session_state, FALSE, TRUE)} :
           /\ session_state' = r.ss
           /\ event' = Outcome("clear", r, r.calls)
    /\ UNCHANGED <<app, widgets>>

Edit == \E f \in FieldNames : \E v \in Inputs(app, f) : BatchEdit(f, v) \/ LiveEdit(f, v)

Next ==
    \/ Edit
    \/ BatchSubmitForm
    \/ BatchClearForm
    \/ LiveSubmit
    \/ LiveClear

Spec == Init /\ [][Next]_vars

(***************************************************************************)
(* The validators called on their own                                      *)
(*                                                                         *)
(* app = "validators"; widgets is the argument, [field, value], and event  *)
(* the last call: the module called ("A" form_validation.py, "B"           *)
(* form_validation2.py) and what the call returned.                        *)
(***************************************************************************)

\* all strings over alphabet A of length up to n
Strings(A, n) == UNION {[1..k -> A] : k \in 0..n}

\* names: up to NameLen characters, legal and illegal ones
NameLen == 3
NameAlphabet == {"A", "b", " ", "-", "'", "1", "\n"}
NameArgs == Strings(NameAlphabet, NameLen)

\* emails: every string of up to EmailLen characters over EmailAlphabet, the
\* ones the forms are given and some longer ones
EmailLen == 6
EmailAlphabet == {"a", "1", "_", ".", "-", "@"}
EmailSamples ==
    { <<"a", "@", "b">>, <<"@", "b", ".", "c", "o">>, <<"a", "@", "b", ".", "c">>,
      <<"a", "b", ".", "c", "o">>, <<"a", "@", ".", "c", "o">>,
      <<"a", "_", "1", "@", "b", "-", "1", ".", "c", "o">>,
      <<"a", "@", "b", "_", "1", ".", "c", "o">>,
      <<"a", "@", "b", ".", "c", "o", "\n">>, <<"a", "@", "b", ".", "c", "1">> }
EmailArgs == Strings(EmailAlphabet, EmailLen) \cup EmailInputs \cup EmailSamples

\* phones: the two usual shapes with every digit one of PhoneDigits, two of
\* them with one character replaced or left out, and short strings
PhoneDigits == {"5", "0"}
PhoneAlphabet == {"5", "a", "-", "(", ")", " ", "."}
PhoneLen == 2
Parenthesised(d) ==
    <<"(", d[1], d[2], d[3], ")", " ", d[4], d[5], d[6], "-", d[7], d[8], d[9], d[10]>>
Hyphenated(d) ==
    <<d[1], d[2], d[3], "-", d[4], d[5], d[6], "-", d[7], d[8], d[9], d[10]>>
PhoneShapes ==
    {Parenthesised(d) : d \in [1..10 -> PhoneDigits]}
        \cup {Hyphenated(d) : d \in [1..10 -> PhoneDigits]}
PhoneBases == {Parenthesised([i \in 1..10 |-> "5"]), Hyphenated([i \in 1..10 |-> "5"])}
PhoneArgs ==
    PhoneShapes
        \cup UNION {{[b EXCEPT ![i] = c] : i \in 1..Len(b), c \in PhoneAlphabet} :
                       b \in PhoneBases}
        \cup UNION {{SubSeq(b, 1, i - 1) \o SubSeq(b, i + 1, Len(b)) : i \in 1..Len(b)} :
                       b \in PhoneBases}
        \cup Strings(PhoneAlphabet, PhoneLen)

\* ages: the ints around the limits, and strs of up to AgeLen characters
AgeMargin == 2
AgeLen == 3
AgeAlphabet == {"1", "0", "a", "-", " ", "_", "."}
AgeArgs ==
    {PyInt(n) : n \in (MinAge - AgeMargin)..(MaxAge + AgeMargin)}
        \cup {PyStr(t) : t \in Strings(AgeAlphabet, AgeLen)}

\* dates: the days around 1990-01-01, today and the end of the five years
DateMargin == 2
DateArgs ==
    UNION {(d - DateMargin)..(d + DateMargin) : d \in {EarliestDate, Today, Today + FutureDays}}

Args(f) ==
    CASE f \in {"first_name", "last_name"} -> NameArgs
      [] f = "email" -> EmailArgs
      [] f = "phone" -> PhoneArgs
      [] f = "age" -> AgeArgs
      [] f = "birth_date" -> DateArgs

\* the field_name the forms pass to validate_name
Label(f) == IF f = "first_name" THEN "First name" ELSE "Last name"

ValidatorInit ==
    /\ app = "validators"
    /\ session_state = NoEntries
    /\ \E f \in Validated : \E v \in Args(f) : widgets = [field |-> f, value |-> v]
    /\ event = [kind |-> "start"]

\* a call of a validator of module m on the argument ends with r
Call(m, r) ==
    /\ event.kind = "start"
    /\ event' = [kind |-> "call", module |-> m, ret |-> r]
    /\ UNCHANGED <<app, widgets, session_state>>

CallNameA ==
    /\ app = "validators" /\ widgets.field \in {"first_name", "last_name"}
    /\ Call("A", validate_name_A(widgets.value, Label(widgets.field)))

CallNameB ==
    /\ app = "validators" /\ widgets.field \in {"first_name", "last_name"}
    /\ Call("B", validate_name_B(widgets.value, Label(widgets.field)))

CallEmailA ==
    /\ app = "validators" /\ widgets.field = "email"
    /\ Call("A", validate_email_A(widgets.value))

CallEmailB ==
    /\ app = "validators" /\ widgets.field = "email"
    /\ Call("B", validate_email_B(widgets.value))

CallPhoneA ==
    /\ app = "validators" /\ widgets.field = "phone"
    /\ Call("A", validate_phone_A(widgets.value))

CallPhoneB ==
    /\ app = "validators" /\ widgets.field = "phone"
    /\ Call("B", validate_phone_B(widgets.value))

CallAgeA ==
    /\ app = "validators" /\ widgets.field = "age"
    /\ Call("A", validate_age_A(widgets.value))

CallAgeB ==
    /\ app = "validators" /\ widgets.field = "age"
    /\ Call("B", validate_age_B(widgets.value))

CallDateA ==
    /\ app = "validators" /\ widgets.field = "birth_date"
    /\ Call("A", validate_date_A(widgets.value))

CallDateB ==
    /\ app = "validators" /\ widgets.field = "birth_date"
    /\ Call("B", validate_date_B(widgets.value))

ValidatorNext ==
    \/ CallNameA \/ CallNameB
    \/ CallEmailA \/ CallEmailB
    \/ CallPhoneA \/ CallPhoneB
    \/ CallAgeA \/ CallAgeB
    \/ CallDateA \/ CallDateB

ValidatorSpec == ValidatorInit /\ [][ValidatorNext]_vars

(***************************************************************************)
(* Two sessions of the same form                                           *)
(*                                                                         *)
(* Both browser sessions run the script named by app. Streamlit gives each *)
(* session its own st.session_state and its own widgets, and the scripts   *)
(* keep no state anywhere else: session_state[s] and widgets[s] are those  *)
(* of session s, event names the session whose script ran last.            *)
(***************************************************************************)

Sessions == {"s1", "s2"}

\* The users of the two sessions fill in the form from top to bottom, each
\* field with one valid value, and leave the birth date and the start date as
\* they are; the email is the one field they also empty again.
FillOrder == <<"first_name", "last_name", "email", "phone", "age", "end_date">>

TwoValue(f) ==
    CASE f = "first_name" -> <<"A", "l">>
      [] f = "last_name" -> <<"L", "e", "e">>
      [] f = "email" -> <<"a", "@", "b", ".", "c", "o">>
      [] f = "phone" -> <<"5", "5", "5", "-", "1", "2", "3", "-", "4", "5", "6", "7">>
      [] f = "age" -> MaxAge
      [] f = "end_date" -> Today + 1

TwoInputs(f) == IF f = "email" THEN {<<>>, TwoValue(f)} ELSE {TwoValue(f)}

\* the value field f holds in session s
TwoHeld(s, f) == IF app = "batch" THEN widgets[s][f] ELSE session_state[s][f]

\* field FillOrder[i] is given its value after the fields above it
InOrder(s, i, v) ==
    v = TwoValue(FillOrder[i]) => \A j \in 1..(i - 1) : TwoHeld(s, FillOrder[j]) = TwoValue(FillOrder[j])

\* one store for all sessions, as a module-level dictionary would be
Stored_Shared(all, s, own) == [t \in DOMAIN all |-> own]

\* the script run of session s leaves own as the state of session s
Stored(all, s, own) == [all EXCEPT ![s] = own]

TwoOutcome(kind, s, success) == [kind |-> kind, session |-> s, success |-> success]

TwoStartBatch ==
    /\ app = "batch"
    /\ session_state = [s \in Sessions |-> [form_data |-> InitialFormData]]
    /\ widgets = [s \in Sessions |-> WidgetDefaults(InitialFormData)]
    /\ event = TwoOutcome("start", "none", FALSE)

TwoStartLive ==
    /\ app = "live"
    /\ session_state = [s \in Sessions |-> LiveMain(NoEntries, FALSE, FALSE).ss]
    /\ widgets = [s \in Sessions |-> NoEntries]
    /\ event = TwoOutcome("start", "none", FALSE)

TwoInit == TwoStartBatch \/ TwoStartLive

TwoBatchEdit(s, f, v) ==
    /\ app = "batch"
    /\ v # widgets[s][f]
    /\ widgets' = Stored(widgets, s, [widgets[s] EXCEPT ![f] = v])
    /\ event' = TwoOutcome("edit", s, FALSE)
    /\ UNCHANGED <<app, session_state>>

TwoBatchSubmit(s) ==
    /\ app = "batch"
    /\ \E r \in {BatchSubmit(session_state[s].form_data, widgets[s])} :
           /\ session_state' = Stored(session_state, s, [form_data |-> r.form_data])
           /\ widgets' = Stored(widgets, s, r.widgets)
           /\ event' = TwoOutcome("submit", s, r.success)
    /\ UNCHANGED app

TwoBatchClear(s) ==
    /\ app = "batch"
    /\ session_state[s].form_data.submitted
    /\ \E r \in {BatchClear(session_state[s].form_data, widgets[s])} :
           /\ session_state' = Stored(session_state, s, [form_data |-> r.form_data])
           /\ widgets' = Stored(widgets, s, r.widgets)
           /\ event' = TwoOutcome("clear", s, FALSE)
    /\ UNCHANGED app

TwoLiveEdit(s, f, v) ==
    /\ app = "live"
    /\ v # session_state[s][f]
    /\ \E r \in {LiveMain(Set(session_state[s], f, v), FALSE, FALSE)} :
           /\ session_state' = Stored(session_state, s, r.ss)
           /\ event' = TwoOutcome("edit", s, FALSE)
    /\ UNCHANGED <<app, widgets>>

TwoLiveSubmit(s) ==
    /\ app = "live"
    /\ \E r \in {LiveMain(session_state[s], TRUE, FALSE)} :
           /\ session_state' = Stored(session_state, s, r.ss)
           /\ event' = TwoOutcome("submit", s, r.success)
    /\ UNCHANGED <<app, widgets>>

TwoLiveClear(s) ==
    /\ app = "live"
    /\ \E r \in {LiveMain(session_state[s], FALSE, TRUE)} :
           /\ session_state' = Stored(session_state, s, r.ss)
           /\ event' = TwoOutcome("clear", s, FALSE)
    /\ UNCHANGED <<app, widgets>>

TwoEdit ==
    \E s \in Sessions, i \in 1..Len(FillOrder) :
        \E v \in TwoInputs(FillOrder[i]) :
            /\ InOrder(s, i, v)
            /\ TwoBatchEdit(s, FillOrder[i], v) \/ TwoLiveEdit(s, FillOrder[i], v)

TwoNext ==
    \/ TwoEdit
    \/ \E s \in Sessions : TwoBatchSubmit(s)
    \/ \E s \in Sessions : TwoBatchClear(s)
    \/ \E s \in Sessions : TwoLiveSubmit(s)
    \/ \E s \in Sessions : TwoLiveClear(s)

TwoSpec == TwoInit /\ [][TwoNext]_vars

(***************************************************************************)
(* What the claims speak of                                                *)
(***************************************************************************)

\* every field passes its validator and the dates are in order, batch form
BatchAllPass(w) ==
    /\ validate_name_A(w.first_name, "First name").ok
    /\ validate_name_A(w.last_name, "Last name").ok
    /\ validate_email_A(w.email).ok
    /\ validate_phone_A(w.phone).ok
    /\ validate_age_A(PyInt(w.age)).ok
    /\ validate_date_A(w.birth_date).ok
    /\ w.start_date < w.end_date

\* the same for the live form
LiveAllPass(ss) ==
    /\ validate_name_B(ss.first_name, "First name").ok
    /\ validate_name_B(ss.last_name, "Last name").ok
    /\ validate_email_B(ss.email).ok
    /\ validate_phone_B(ss.phone).ok
    /\ validate_age_B(PyInt(ss.age)).ok
    /\ validate_date_B(ss.birth_date).ok
    /\ ss.start_date < ss.end_date

\* the field values of the current state pass all validations
AllPass == IF app = "batch" THEN BatchAllPass(widgets) ELSE LiveAllPass(session_state)

\* the step is a submit, an edit, a clear
SubmitStep == event'.kind = "submit"
EditStep == event'.kind = "edit"
ClearStep == event'.kind = "clear"

\* the field values the script stores
StoredValues ==
    IF app = "batch" THEN create_sidebar_markdown(session_state.form_data)
    ELSE [f \in FieldNames |-> session_state[f]]

\* C1: a submit moves the session to Submitted (and reports success) exactly
\* when, at that submit, all six fields pass their validators and
\* start_date < end_date; an edit or a clear never turns Editing into Submitted.
C1_SubmitGate ==
    [][ /\ SubmitStep /\ AllPass => Submitted' /\ event'.success
        /\ SubmitStep /\ ~AllPass => ~event'.success /\ Submitted' = Submitted
        /\ EditStep \/ ClearStep => (Submitted' => Submitted) /\ ~event'.success
      ]_vars

\* C1 witness: the live form has just been submitted successfully
C1_Witness == app = "live" /\ event.kind = "submit" /\ event.success /\ Submitted

\* C2: a submit at which some validation fails reports failure with a non-empty
\* message list and changes neither the submission state nor any stored or
\* held field value; after it the fields can still be edited.
C2_FailedSubmit ==
    /\ [][ SubmitStep /\ ~AllPass =>
             /\ ~event'.success
             /\ event'.messages # <<>>
             /\ Submitted' = Submitted
             /\ session_state' = session_state
             /\ widgets' = widgets
         ]_vars
    /\ [](event.kind = "submit" /\ ~event.success => ENABLED Edit)

\* C2 witness: the batch form after a failed submit from Editing
C2_Witness ==
    /\ app = "batch" /\ event.kind = "submit" /\ ~event.success
    /\ ~Submitted /\ Len(event.messages) >= 2

\* the values the fields hold, as the summary would show them
HeldValues ==
    IF app = "batch"
    THEN [f \in FieldNames |-> IF f = "age" THEN PyInt(widgets[f]) ELSE widgets[f]]
    ELSE [f \in FieldNames |-> session_state[f]]

\* the data shown as the submitted summary
Summary ==
    IF app = "batch" THEN create_sidebar_markdown(session_state.form_data)
    ELSE [f \in FieldNames |-> update_sidebar_table(session_state)[f]]

\* the summary is on display: batch, the sidebar summary; live, the banner
SummaryShown ==
    IF app = "batch" THEN session_state.form_data.submitted
    ELSE update_sidebar_table(session_state).banner

\* C3: once a submit has succeeded the summary equals the values of that
\* submit, and no edit or failed submit changes it.
C3_SummaryRetained ==
    [][ /\ SubmitStep /\ event'.success =>
             SummaryShown' /\ Summary' = HeldValues
        /\ SummaryShown /\ (EditStep \/ (SubmitStep /\ ~event'.success)) =>
             SummaryShown' /\ Summary' = Summary
      ]_vars

\* C4: after a clear every stored field value is its default (today for the
\* three dates, the empty string for the text fields, empty or zero for age)
\* and the session is Editing.
C4_ClearDefaults ==
    event.kind = "clear" =>
        /\ ~Submitted
        /\ \A f \in {"first_name", "last_name", "email", "phone"} : StoredValues[f] = <<>>
        /\ \A f \in {"birth_date", "start_date", "end_date"} : StoredValues[f] = Today
        /\ IF app = "batch" THEN StoredValues.age = PyStr(<<>>) ELSE StoredValues.age = 0

\* C4 witness: the batch form has been cleared after a submission
C4_Witness == app = "batch" /\ event.kind = "clear" /\ widgets.first_name = <<>>

\* the verdict of the live form's validator of field f on value v
LiveVerdict(f, v) ==
    CASE f = "first_name" -> validate_name_B(v, "First name").ok
      [] f = "last_name" -> validate_name_B(v, "Last name").ok
      [] f = "email" -> validate_email_B(v).ok
      [] f = "phone" -> validate_phone_B(v).ok
      [] f = "age" -> validate_age_B(PyInt(v)).ok
      [] f = "birth_date" -> validate_date_B(v).ok

\* C5: in the live form, after every event, each *_valid flag equals the
\* verdict of the field's validator on the value the field holds.
C5_FlagsCurrent ==
    app = "live" =>
        \A f \in Validated :
            session_state[f \o "_valid"] = LiveVerdict(f, session_state[f])

\* C5 witness: email was just changed to "bad" and email_valid is false
C5_Witness ==
    /\ app = "live" /\ event.kind = "edit"
    /\ session_state.email = <<"b", "a", "d">>
    /\ ~session_state.email_valid
    /\ session_state.first_name_valid

\* C6: the form is valid exactly when the message list is empty. Live:
\* get_validation_status() is empty iff the six flags are true and
\* start_date < end_date. Batch: a submit passes all validations iff it
\* surfaces no message.
C6_ValidIffNoMessages ==
    /\ app = "live" =>
          ( get_validation_status(session_state).ret = <<>>
            <=> /\ \A f \in Validated : session_state[f \o "_valid"]
                /\ session_state.start_date < session_state.end_date )
    /\ app = "batch" /\ event.kind = "submit" =>
          /\ event.success <=> event.messages = <<>>
          /\ BatchAllPass(widgets) <=> event.messages = <<>>

\* C6 witness: the live form with every flag true and an empty message list
C6_Witness ==
    /\ app = "live"
    /\ \A f \in Validated : session_state[f \o "_valid"]
    /\ session_state.start_date < session_state.end_date
    /\ get_validation_status(session_state).ret = <<>>
    /\ ~session_state.form_submitted

RangeMessage == "Start date must be before end date"

\* the messages of sequence msgs, as a set
Range(msgs) == {msgs[i] : i \in 1..Len(msgs)}

\* C7: with start_date >= end_date a submit fails and its messages contain the
\* date-range message, whatever the other fields hold; in the live form
\* start_date_valid and end_date_valid both equal (start_date < end_date).
C7_DateRange ==
    /\ event.kind = "submit" /\ FieldValue("start_date") >= FieldValue("end_date") =>
          ~event.success /\ RangeMessage \in Range(event.messages)
    /\ app = "live" =>
          /\ session_state.start_date_valid = session_state.end_date_valid
          /\ session_state.start_date_valid
                = (session_state.start_date < session_state.end_date)

\* C7 witness: a submit with equal dates and every other field valid
C7_Witness ==
    /\ event.kind = "submit" /\ app = "batch"
    /\ widgets.start_date = widgets.end_date
    /\ event.messages = <<RangeMessage>>

\* C8: get_validation_status() has no side effect and is idempotent: a call
\* leaves the session state as it was, a second call on the state the first
\* one left returns the same list, and all calls of one script run that follow
\* each other without an edit returned the same list.
C8_StatusPure ==
    app = "live" =>
        LET first == get_validation_status(session_state)
            second == get_validation_status(first.ss)
        IN  /\ first.ss = session_state
            /\ second.ss = session_state
            /\ second.ret = first.ret
            /\ \A i \in 1..Len(event.calls) : event.calls[i] = first.ret

\* C8 witness: a failed submit, whose run calls get_validation_status three
\* times with a non-empty result
C8_Witness ==
    /\ app = "live" /\ event.kind = "submit"
    /\ Len(event.calls) = 3 /\ Len(event.calls[1]) >= 2

\* the messages of each field, in the canonical order of the fields
FieldMessages ==
    << { validate_name_A(<<>>, "First name").msg,
         validate_name_A(<<"1">>, "First name").msg,
         validate_name_A(<<"A">>, "First name").msg,
         validate_name_B(<<"A">>, "First name").msg },
       { validate_name_A(<<>>, "Last name").msg,
         validate_name_A(<<"1">>, "Last name").msg,
         validate_name_A(<<"A">>, "Last name").msg,
         validate_name_B(<<"A">>, "Last name").msg },
       { "Email is required", "Invalid email format",
         "Please enter a valid email address" },
       { "Phone number is required", "Phone must be 10 digits",
         "Please enter a valid phone number" },
       { "Age is required", "Age must be greater than 0", "Age must be less than 120",
         "Age must be between 0 and 120", "Please enter a valid number" },
       { "Birth date is required", "Date is required", "Date cannot be in the future",
         "Date must be after 1990-01-01",
         "Date cannot be more than 5 years in the future" },
       { RangeMessage } >>

\* msgs follows the canonical order: each message belongs to a field, and the
\* fields of the messages strictly increase along the list
Canonical(msgs) ==
    LET Rank(m) == CHOOSE k \in 1..Len(FieldMessages) : m \in FieldMessages[k]
    IN  /\ \A i \in 1..Len(msgs) : \E k \in 1..Len(FieldMessages) : msgs[i] \in FieldMessages[k]
        /\ \A i, j \in 1..Len(msgs) : i < j => Rank(msgs[i]) < Rank(msgs[j])

\* C9: the message list of a submit and of get_validation_status follows the
\* order first_name, last_name, email, phone, age, birth_date, date range,
\* with at most one message per field and at most one date-range message.
C9_CanonicalOrder ==
    /\ Canonical(event.messages)
    /\ \A i \in 1..Len(event.calls) : Canonical(event.calls[i])
    /\ app = "live" => Canonical(get_validation_status(session_state).ret)

\* C9 witness: a batch submit that surfaced a message for four fields and the
\* date range
C9_Witness ==
    /\ app = "batch" /\ event.kind = "submit" /\ Len(event.messages) >= 5
    /\ RangeMessage \in Range(event.messages)

\* the position of each field in the canonical order, its required-field
\* message and its untouched value
FieldIndex(f) ==
    CASE f = "first_name" -> 1 [] f = "last_name" -> 2 [] f = "email" -> 3
      [] f = "phone" -> 4 [] f = "age" -> 5

RequiredMessage(f) ==
    CASE f = "first_name" -> "First name is required"
      [] f = "last_name" -> "Last name is required"
      [] f = "email" -> "Email is required"
      [] f = "phone" -> "Phone number is required"
      [] f = "age" -> "Age is required"

Untouched(f, v) == IF f = "age" THEN v = 0 ELSE v = <<>>

RequiredFields == {"first_name", "last_name", "email", "phone", "age"}

\* msgs holds the required-field message of f and no other message of f
OnlyRequired(f, msgs) ==
    Range(msgs) \cap FieldMessages[FieldIndex(f)] = {RequiredMessage(f)}

\* msgs holds message m for f and no other message of f
OnlyMessage(f, msgs, m) == Range(msgs) \cap FieldMessages[FieldIndex(f)] = {m}

\* C10 as claimed: in both forms an empty first_name, last_name, email or
\* phone, and an age of 0, puts that field's required-field message in the
\* message list, and no rule-violation message for it.
C10_RequiredBothForms ==
    /\ app = "live" =>
          \A f \in RequiredFields :
              Untouched(f, session_state[f]) =>
                  OnlyRequired(f, get_validation_status(session_state).ret)
    /\ app = "batch" /\ event.kind = "submit" =>
          \A f \in RequiredFields :
              Untouched(f, widgets[f]) => OnlyRequired(f, event.messages)

\* C10 as amended: the live form does so for all five fields; the batch form
\* does so for first_name and last_name only: at a submit an empty email or
\* phone gets the format message of its validator, and age 0 passes without
\* any message.
C10_RequiredMessages ==
    /\ app = "live" =>
          \A f \in RequiredFields :
              Untouched(f, session_state[f]) =>
                  OnlyRequired(f, get_validation_status(session_state).ret)
    /\ app = "batch" /\ event.kind = "submit" =>
          /\ \A f \in {"first_name", "last_name"} :
                 Untouched(f, widgets[f]) => OnlyRequired(f, event.messages)
          /\ widgets.email = <<>> =>
                 OnlyMessage("email", event.messages, "Please enter a valid email address")
          /\ widgets.phone = <<>> =>
                 OnlyMessage("phone", event.messages, "Please enter a valid phone number")
          /\ widgets.age = 0 =>
                 Range(event.messages) \cap FieldMessages[FieldIndex("age")] = {}

\* C10 witness: a batch submit with every text field empty and age 0
C10_Witness ==
    /\ app = "batch" /\ event.kind = "submit"
    /\ \A f \in RequiredFields : Untouched(f, widgets[f])
    /\ Len(event.messages) >= 4

\* the value a live field's widget is created with
LiveDefault(f) ==
    CASE f \in {"first_name", "last_name", "email", "phone"} -> <<>>
      [] f = "age" -> MinAge
      [] f \in {"birth_date", "start_date", "end_date"} -> Today

\* field f holds its default, reports isValid = false and shows no error
Neutral(ss, f) ==
    /\ ss[f] = LiveDefault(f)
    /\ ~ss[f \o "_valid"]
    /\ LiveError(ss, f) = ""

\* C11: in the live form, at session start and right after a clear, each of
\* the six validated fields holds its default, has its flag false and shows
\* no error message, and stays so through every step that does not change
\* that field.
C11_UntouchedNeutral ==
    /\ [](app = "live" /\ event.kind \in {"start", "clear"} =>
             \A f \in Validated : Neutral(session_state, f))
    /\ [][app = "live" =>
             \A f \in Validated :
                 Neutral(session_state, f) /\ session_state'[f] = session_state[f]
                     => Neutral(session_state', f)]_vars

\* the stored field values that a step changes
Changed == {f \in FieldNames : StoredValues'[f] # StoredValues[f]}

\* C12: a step that is not a clear never turns Submitted into Editing and
\* never resets the stored values: an edit changes at most the one field
\* edited, a failed submit changes nothing, a successful submit stores the
\* values submitted.
C12_OnlyClearResets ==
    [][ ~ClearStep =>
          /\ Submitted => Submitted'
          /\ EditStep => Cardinality(Changed) <= 1
          /\ SubmitStep /\ ~event'.success => Changed = {}
          /\ SubmitStep /\ event'.success => StoredValues' = HeldValues
      ]_vars

\* C12 witness: a field of the submitted live form has just been edited to an
\* invalid value and the session is still Submitted
C12_Witness ==
    /\ app = "live" /\ event.kind = "edit" /\ Submitted
    /\ ~session_state.email_valid

\* the last event is a call that returned (it did not end in an exception)
Returned == event.kind = "call" /\ "raises" \notin DOMAIN event.ret

\* the last event is a call of module m's validator of field f that returned
ReturnedBy(m, f) == Returned /\ event.module = m /\ widgets.field = f

IntArg == "int" \in DOMAIN widgets.value

\* C14: on an int, validate_age of form_validation.py accepts exactly 0..120
\* and validate_age of form_validation2.py accepts exactly 1..120.
C14_AgeLimits ==
    /\ ReturnedBy("A", "age") /\ IntArg =>
          (event.ret.ok <=> widgets.value.int \in 0..120)
    /\ ReturnedBy("B", "age") /\ IntArg =>
          (event.ret.ok <=> widgets.value.int \in 1..120)

\* C14 witness: form_validation2.py's validate_age has rejected 0
C14_Witness ==
    ReturnedBy("B", "age") /\ widgets.value = PyInt(0) /\ ~event.ret.ok

\* the argument of the call is a str that int() does not read as a number
NonNumericArg ==
    /\ "str" \in DOMAIN widgets.value
    /\ "raises" \in DOMAIN int_py(widgets.value)

\* C15: validate_age of either module, called on a str that is not a number,
\* raises nothing and returns a failure with the message "Please enter a
\* valid number".
C15_NonNumericAge ==
    event.kind = "call" /\ widgets.field = "age" /\ NonNumericArg =>
        /\ Returned
        /\ ~event.ret.ok
        /\ event.ret.msg = "Please enter a valid number"

\* \w
WordChar == Letter \cup Digit \cup {"_"}

\* s, a final newline apart, is local@domain.tld: a non-empty local part of
\* LocalClass before its first "@", a non-empty domain of DomainClass between
\* that "@" and its last ".", and two or more letters after that "."
EmailShape(s, LocalClass, DomainClass) ==
    LET t == IF Len(s) > 0 /\ s[Len(s)] = "\n" THEN SubSeq(s, 1, Len(s) - 1) ELSE s
        ats == {i \in 1..Len(t) : t[i] = "@"}
        dots == {i \in 1..Len(t) : t[i] = "."}
    IN  /\ ats # {} /\ dots # {}
        /\ LET at == CHOOSE i \in ats : \A j \in ats : i <= j
               dot == CHOOSE i \in dots : \A j \in dots : i >= j
           IN  /\ at > 1 /\ \A i \in 1..(at - 1) : t[i] \in LocalClass
               /\ dot > at + 1 /\ \A i \in (at + 1)..(dot - 1) : t[i] \in DomainClass
               /\ Len(t) >= dot + 2 /\ \A i \in (dot + 1)..Len(t) : t[i] \in Letter

\* validate_email of both modules accepts the argument exactly when it is an
\* email of these classes, and gives a message when it rejects it
EmailVerdict(LocalClass, DomainClass) ==
    Returned /\ widgets.field = "email" =>
        /\ event.ret.ok <=>
               widgets.value # <<>> /\ EmailShape(widgets.value, LocalClass, DomainClass)
        /\ ~event.ret.ok => event.ret.msg # ""

\* C16 as claimed: validate_email of both modules accepts a string iff it is
\* non-empty and matches ^[\w.%+-]+@[\w.-]+\.[A-Za-z]{2,}$, and rejects every
\* other string with a non-empty message.
C16_EmailWordClass ==
    EmailVerdict(WordChar \cup {".", "%", "+", "-"}, WordChar \cup {".", "-"})

\* C16 as amended: the same with the domain class [a-zA-Z0-9.-], which has no
\* underscore: ^[a-zA-Z0-9._%+-]+@[a-zA-Z0-9.-]+\.[a-zA-Z]{2,}$.
C16_EmailCodeClass ==
    EmailVerdict(Letter \cup Digit \cup {".", "_", "%", "+", "-"},
                 Letter \cup Digit \cup {".", "-"})

\* C16 witness: form_validation2.py's validate_email has rejected a@_.aa
C16_Witness ==
    /\ ReturnedBy("B", "email")
    /\ widgets.value = <<"a", "@", "_", ".", "a", "a">>
    /\ event.ret = Invalid("Invalid email format")

\* every character of name is a letter, whitespace or a hyphen
LegalNameA(name) == \A i \in 1..Len(name) : name[i] \in Letter \cup Space \cup {"-"}

\* C17: form_validation.py's validate_name accepts exactly the non-empty
\* names of letters, whitespace and hyphens that are at least 2 long, and
\* otherwise returns the message of the first rule violated in the order
\* required, characters, length.
C17_NameRulesInOrder ==
    \A f \in {"first_name", "last_name"} :
        ReturnedBy("A", f) =>
            LET name == widgets.value
            IN  /\ event.ret.ok <=> name # <<>> /\ LegalNameA(name) /\ Len(name) >= 2
                /\ name = <<>> => event.ret.msg = Label(f) \o " is required"
                /\ name # <<>> /\ ~LegalNameA(name) =>
                       event.ret.msg =
                           Label(f) \o " should only contain letters, spaces, and hyphens"
                /\ name # <<>> /\ LegalNameA(name) /\ Len(name) < 2 =>
                       event.ret.msg = Label(f) \o " should be at least 2 characters long"

\* C17 witness: the one-character name "1" got the character-set message
C17_Witness ==
    /\ ReturnedBy("A", "first_name")
    /\ widgets.value = <<"1">>
    /\ event.ret = Invalid("First name should only contain letters, spaces, and hyphens")

\* the proleptic Gregorian calendar of datetime.date
IsLeap(y) == y % 4 = 0 /\ (y % 100 # 0 \/ y % 400 = 0)

DaysInMonth(y, m) ==
    CASE m \in {1, 3, 5, 7, 8, 10, 12} -> 31
      [] m \in {4, 6, 9, 11} -> 30
      [] m = 2 -> IF IsLeap(y) THEN 29 ELSE 28

\* the days before 1 January of year y, and before the first of month m
DaysBeforeYear(y) ==
    LET p == y - 1 IN p * 365 + p \div 4 - p \div 100 + p \div 400

DaysBeforeMonth(y, m) ==
    LET before[k \in 1..12] == IF k = 1 THEN 0 ELSE before[k - 1] + DaysInMonth(y, k - 1)
    IN  before[m]

\* date(y, m, d).toordinal()
Ordinal(y, m, d) == DaysBeforeYear(y) + DaysBeforeMonth(y, m) + d

\* the year, month and day of the date with ordinal n
YearOf(n) == CHOOSE y \in 1..9999 : DaysBeforeYear(y) < n /\ n <= DaysBeforeYear(y + 1)
MonthOf(n) ==
    LET y == YearOf(n)
    IN  CHOOSE m \in 1..12 :
            /\ Ordinal(y, m, 1) <= n
            /\ n < Ordinal(y, m, 1) + DaysInMonth(y, m)
DayOf(n) == n - Ordinal(YearOf(n), MonthOf(n), 1) + 1

\* the same day and month k years later (of a date other than 29 February)
YearsLater(n, k) == Ordinal(YearOf(n) + k, MonthOf(n), DayOf(n))

\* today + 5 calendar years
FiveYearsOn == YearsLater(Today, 5)

\* C19: form_validation.py's validate_date accepts a date d iff
\* 1990-01-01 <= d <= today + 5 calendar years; an earlier date gets the
\* "must be after" message, a later one the "more than 5 years in the future"
\* message; the date exactly 5 calendar years after today is accepted.
C19_FiveCalendarYears ==
    ReturnedBy("A", "birth_date") =>
        LET d == widgets.value
        IN  /\ event.ret.ok <=> EarliestDate <= d /\ d <= FiveYearsOn
            /\ d < EarliestDate => event.ret.msg = "Date must be after 1990-01-01"
            /\ d > FiveYearsOn =>
                   event.ret.msg = "Date cannot be more than 5 years in the future"

\* s has the shape (ddd) ddd-dddd or ddd-ddd-dddd
PhoneShape(s) ==
    \/ /\ Len(s) = 14
       /\ s[1] = "(" /\ s[5] = ")" /\ s[6] = " " /\ s[10] = "-"
       /\ \A i \in (1..14) \ {1, 5, 6, 10} : s[i] \in Digit
    \/ /\ Len(s) = 12
       /\ s[4] = "-" /\ s[8] = "-"
       /\ \A i \in (1..12) \ {4, 8} : s[i] \in Digit

\* C20: form_validation.py's validate_phone accepts every string of the shape
\* (ddd) ddd-dddd or ddd-ddd-dddd; validate_phone of both modules rejects
\* every string with a letter in it, with a message; form_validation2.py's
\* accepts a string iff it consists of exactly 10 digits and any number of
\* whitespace characters, hyphens and parentheses.
C20_PhoneRules ==
    Returned /\ widgets.field = "phone" =>
        LET phone == widgets.value
            digits == {i \in 1..Len(phone) : phone[i] \in Digit}
            others == {i \in 1..Len(phone) : phone[i] \notin Digit}
        IN  /\ event.module = "A" /\ PhoneShape(phone) => event.ret.ok
            /\ (\E i \in 1..Len(phone) : phone[i] \in Letter) =>
                   ~event.ret.ok /\ event.ret.msg # ""
            /\ event.module = "B" =>
                   ( event.ret.ok <=>
                       /\ Cardinality(digits) = 10
                       /\ \A i \in others : phone[i] \in Space \cup {"-", "(", ")"} )

\* C20 witness: form_validation2.py's validate_phone has accepted
\* (555) 555-5555
C20_Witness ==
    /\ ReturnedBy("B", "phone")
    /\ widgets.value = Parenthesised([i \in 1..10 |-> "5"])
    /\ event.ret.ok

\* what session s holds: its stored values and flags and its widgets' values
SessionOf(s) == <<session_state[s], widgets[s]>>

\* session s is Submitted
TwoSubmitted(s) ==
    IF app = "batch" THEN session_state[s].form_data.submitted
    ELSE session_state[s].form_submitted

\* C18: with two sessions running the same form, an edit, submit or clear of
\* one session leaves the field values, the validity flags and the
\* submission state of the other session unchanged.
C18_SessionsIsolated ==
    [][ \A s \in Sessions :
            event'.session # s =>
                /\ SessionOf(s)' = SessionOf(s)
                /\ TwoSubmitted(s)' = TwoSubmitted(s)
      ]_vars

\* C18 witness: session s2 has just submitted with success while session s1,
\* submitted earlier, has an emptied email
C18_Witness ==
    /\ event.kind = "submit" /\ event.session = "s2" /\ event.success
    /\ TwoSubmitted("s1") /\ TwoHeld("s1", "email") = <<>>

\* the stored field values pass their validators and the dates are in order
StoredPass ==
    IF app = "batch"
    THEN LET fd == session_state.form_data
         IN  /\ validate_name_A(fd.first_name, "First name").ok
             /\ validate_name_A(fd.last_name, "Last name").ok
             /\ validate_email_A(fd.email).ok
             /\ validate_phone_A(fd.phone).ok
             /\ validate_age_A(fd.age).ok
             /\ validate_date_A(fd.birth_date).ok
             /\ fd.start_date < fd.end_date
    ELSE LiveAllPass(session_state)

\* C21: whenever the session is Submitted (batch: form_data['submitted'],
\* live: form_submitted), the field values held in the session state pass
\* all six validators and start_date < end_date.
C21_SubmittedValid == Submitted => StoredPass

\* the session state of a freshly started session of the form
FreshState ==
    IF app = "batch" THEN [form_data |-> InitialFormData]
    ELSE LiveMain(NoEntries, FALSE, FALSE).ss

\* C22: after a clear, and the rerun it triggers, the session state (field
\* values, end_date included, validity flags and submission state) is that
\* of a freshly started session, so that whatever follows the clear goes as
\* it would from session start.
C22_ClearIsFreshStart == event.kind = "clear" => session_state = FreshState

====
